---- MODULE Spec2Model ----
(***************************************************************************)
(* weldx.core: MathematicalExpression, TimeSeries and GenericSeries.       *)
(*                                                                         *)
(* Python objects live on a heap (a sequence, an object's identity is its  *)
(* index), so that a reference stored in an object (TimeSeries._data is    *)
(* the MathematicalExpression the caller passed) stays an alias of the     *)
(* caller's object, and deepcopy allocates new objects.  Arrays are        *)
(* modelled by what the checks of the code depend on: their named          *)
(* dimensions, the length along each dimension and their unit.             *)
(***************************************************************************)
EXTENDS Integers, Sequences, FiniteSets, TLC

VARIABLES heap, last

vars == <<heap, last>>

(***************************************************************************)
(* Bounds of the model.                                                    *)
(***************************************************************************)
\* number of expressions and time series the heap may hold
MaxObj == 2
\* number of generic series the heap may hold
MaxSeries == 1
\* largest length of an array bound as an expression parameter
MaxLen == 4
\* largest number of time points passed to interp_time / coordinate values
\* passed to a GenericSeries call
MaxTime == 2

Range(s) == {s[i] : i \in DOMAIN s}

\* Python's None where an object is expected
None == [kind |-> "none"]

(***************************************************************************)
(* Python dictionaries: insertion-ordered sequences of <<key, value>>.      *)
(***************************************************************************)
Keys(d) == {d[i][1] : i \in DOMAIN d}

Has(d, k) == k \in Keys(d)

Get(d, k) == d[CHOOSE i \in DOMAIN d : d[i][1] = k][2]

\* d[k] = v : overwrite in place, or append a new key
DictSet(d, k, v) ==
    IF Has(d, k)
    THEN [i \in DOMAIN d |-> IF d[i][1] = k THEN <<k, v>> ELSE d[i]]
    ELSE Append(d, <<k, v>>)

\* d.pop(k) for a key that is present
DictPop(d, k) == SelectSeq(d, LAMBDA kv : kv[1] # k)

KeyList(d) == [i \in DOMAIN d |-> d[i][1]]

(***************************************************************************)
(* Python strings used as names.  set(s) of a string is the set of its     *)
(* characters and s[0] its first character.                                *)
(***************************************************************************)
Chars(s) ==
    CASE s = "time" -> {"t", "i", "m", "e"}
      [] s = "dim_0" -> {"d", "i", "m", "_", "0"}
      [] s = "ab" -> {"a", "b"}
      [] OTHER -> {s}

FirstChar(s) ==
    CASE s = "time" -> "t"
      [] s = "dim_0" -> "d"
      [] s = "ab" -> "a"
      [] OTHER -> s

(***************************************************************************)
(* A `dims` value is a Python string (isStr) or a list of strings.         *)
(***************************************************************************)
StrDims(s) == [isStr |-> TRUE, s |-> s, l |-> <<>>]

ListDims(l) == [isStr |-> FALSE, s |-> "", l |-> l]

\* set(d)
PySet(d) == IF d.isStr THEN Chars(d.s) ELSE Range(d.l)

\* d[0]
PyFirst(d) == IF d.isStr THEN FirstChar(d.s) ELSE d.l[1]

\* the dimension names xarray.DataArray(..., dims=d) gives the array
DADims(d) == IF d.isStr THEN <<d.s>> ELSE d.l

(***************************************************************************)
(* Units (pint): exponents of the units meter, second and millisecond.     *)
(***************************************************************************)
Unit(m, s, ms) == [m |-> m, s |-> s, ms |-> ms]

Dimensionless == Unit(0, 0, 0)

UnitMul(u, v) == Unit(u.m + v.m, u.s + v.s, u.ms + v.ms)

\* pint dimensionality: [length], [time]
Dimensionality(u) == [length |-> u.m, time |-> u.s + u.ms]

\* Quantity.to_reduced_units: one unit per dimension (second and millisecond
\* are folded into one unit; the model keeps the second)
to_reduced_units(u) ==
    IF u.s # 0 /\ u.ms # 0 THEN Unit(u.m, u.s + u.ms, 0) ELSE u

(***************************************************************************)
(* Values: a pint.Quantity (da = FALSE) or an xarray.DataArray of a        *)
(* quantity (da = TRUE), scalar (nd = 0) or one-dimensional (nd = 1) with  *)
(* `len` entries along dimension `dim`.  `coords` tells whether the array  *)
(* has coordinate values along its dimension, and whether the coordinate   *)
(* carries a units attribute.                                              *)
(***************************************************************************)
NoCoords == [has |-> FALSE, hasunits |-> FALSE, units |-> Dimensionless]

PlainCoords == [has |-> TRUE, hasunits |-> FALSE, units |-> Dimensionless]

UnitCoords(u) == [has |-> TRUE, hasunits |-> TRUE, units |-> u]

Value(da, nd, dim, len, unit) ==
    [da |-> da, nd |-> nd, dim |-> dim, len |-> len, unit |-> unit,
     coords |-> NoCoords]

\* Q_(scalar, unit)
QScalar(unit) == Value(FALSE, 0, "", 1, unit)

\* Q_([...], unit) with n entries
QArray(n, unit) == Value(FALSE, 1, "dim_0", n, unit)

NoValue == Value(FALSE, 0, "none", 0, Dimensionless)

\* xr.DataArray(v, dims=d) for a quantity v
DataArray(v, d) ==
    IF Len(DADims(d)) # v.nd
    THEN [err |-> "ValueError", val |-> NoValue]
    ELSE [err |-> "none",
          val |-> Value(TRUE, v.nd, IF v.nd = 0 THEN "" ELSE DADims(d)[1],
                        v.len, v.unit)]

\* xr.DataArray(v) : a quantity array gets the dimension name dim_0
AsDataArray(v) == [v EXCEPT !.da = TRUE]

(***************************************************************************)
(* MathematicalExpression                                                  *)
(*                                                                         *)
(* A formula is its operation and the sequence of its free symbols in the  *)
(* iteration order of sympy's free_symbols.  "mul" is the product of the   *)
(* symbols, "add" their sum.                                               *)
(***************************************************************************)
Formula(op, syms) == [op |-> op, syms |-> syms]

\* a value handed to set_parameters: a tuple (value, dims) or a value
TupleParam(v, d) == [tuple |-> TRUE, val |-> v, dims |-> d]

PlainParam(v) == [tuple |-> FALSE, val |-> v, dims |-> ListDims(<<>>)]

\* the argument of set_parameters: a dict, or something else
DictArg(items) == [isdict |-> TRUE, none |-> FALSE, items |-> items]

NotADict == [isdict |-> FALSE, none |-> FALSE, items |-> <<>>]

\* parameters=None
NoParams == [isdict |-> FALSE, none |-> TRUE, items |-> <<>>]

free_symbols(e) == Range(e.expression.syms)

\* `k not in variable_names` of set_parameters
\* mutant: the name check is dropped
IsNoParameterName_Unchecked(e, k) == FALSE

IsNoParameterName(e, k) == k \notin free_symbols(e)

\* lines 174-177: a tuple becomes a DataArray, anything else a quantity
CoerceParameter(p) ==
    IF p.tuple THEN DataArray(p.val, p.dims)
    ELSE [err |-> "none", val |-> p.val]

\* the loop of set_parameters from entry i on: entries before a rejected one
\* stay bound
RECURSIVE set_parameters_from(_, _, _)
set_parameters_from(e, items, i) ==
    IF i > Len(items) THEN [err |-> "none", obj |-> e]
    ELSE LET k == items[i][1]
             c == CoerceParameter(items[i][2])
         IN  IF IsNoParameterName(e, k) THEN [err |-> "ValueError", obj |-> e]
             ELSE IF c.err # "none" THEN [err |-> c.err, obj |-> e]
             ELSE set_parameters_from(
                      [e EXCEPT !.parameters = DictSet(@, k, c.val)], items, i + 1)

set_parameters(e, params) ==
    IF ~params.isdict THEN [err |-> "ValueError", obj |-> e]
    ELSE set_parameters_from(e, params.items, 1)

set_parameter(e, name, value) == set_parameters(e, DictArg(<< <<name, value>> >>))

\* MathematicalExpression(expression, parameters)
MathematicalExpression(f, parameters) ==
    LET e == [kind |-> "expr", expression |-> f, parameters |-> <<>>]
    IN  IF parameters.none THEN [err |-> "none", obj |-> e]
        ELSE set_parameters(e, parameters)

num_parameters(e) == Len(e.parameters)

num_variables(e) == Len(e.expression.syms) - Len(e.parameters)

get_variable_names(e) ==
    SelectSeq(e.expression.syms, LAMBDA s : ~Has(e.parameters, s))

\* the coefficient of the monomial m (a set of symbols) in the expanded
\* formula: "mul" is s1*...*sn, "add" is s1+...+sn, and "factored" is
\* s1*(s2*...*sn + 1) - s1, which sympy keeps as written
Coefficient(f, m) ==
    LET all == Range(f.syms)
        product == IF m = all THEN 1 ELSE 0
        first == IF m = {f.syms[1]} THEN 1 ELSE 0
    IN  CASE f.op = "mul" -> product
          [] f.op = "add" -> IF Cardinality(m) = 1 /\ m \subseteq all THEN 1 ELSE 0
          [] f.op = "factored" -> (product + first) - first
          [] OTHER -> 0

\* weldx.util.compare_nested on two parameter dictionaries: the same keys
\* with equal values
compare_nested(a, b) ==
    /\ Keys(a) = Keys(b)
    /\ \A k \in Keys(a) : Get(a, k) = Get(b, k)

\* mutant: the parameters are compared whatever check_parameters says
equals_AlwaysParameters(self, other, check_parameters, check_structural_equality) ==
    IF other.kind = "expr"
    THEN /\ IF check_structural_equality
            THEN self.expression = other.expression
            ELSE \A m \in SUBSET (free_symbols(self) \cup free_symbols(other)) :
                     Coefficient(self.expression, m) - Coefficient(other.expression, m) = 0
         /\ compare_nested(self.parameters, other.parameters)
    ELSE FALSE

\* equals: structural equality is sympy's ==, mathematical equality is
\* simplify(self.expression - other.expression) == 0
equals(self, other, check_parameters, check_structural_equality) ==
    IF other.kind = "expr"
    THEN /\ IF check_structural_equality
            THEN self.expression = other.expression
            ELSE \A m \in SUBSET (free_symbols(self) \cup free_symbols(other)) :
                     Coefficient(self.expression, m) - Coefficient(other.expression, m) = 0
         /\ check_parameters => compare_nested(self.parameters, other.parameters)
    ELSE FALSE

\* __eq__
MathematicalExpression_eq(self, other) == equals(self, other, TRUE, TRUE)

(***************************************************************************)
(* evaluate: the lambdified formula applied to DataArrays.  xarray aligns  *)
(* the operands (arrays sharing a dimension name must have the same length *)
(* along it, else ValueError); pint multiplies the units of a product and  *)
(* requires equal dimensionality of the terms of a sum.                    *)
(***************************************************************************)
\* a DataArray of any number of dimensions; coords[i] as for values
\* `time` are the values of the time coordinate and `values` the entries
\* along it, both in halves (1 second is 2), where the model follows them
Array(dims, lens, unit) ==
    [dims |-> dims, lens |-> lens, coords |-> [i \in DOMAIN dims |-> NoCoords],
     unit |-> unit, interpolation |-> "None", time |-> <<>>, values |-> <<>>]

NoArray == Array(<<>>, <<>>, Dimensionless)

Failure(err) == [err |-> err, arr |-> NoArray]

Aligned(ops) ==
    \A i, j \in DOMAIN ops :
        (ops[i].nd = 1 /\ ops[j].nd = 1 /\ ops[i].dim = ops[j].dim)
            => ops[i].len = ops[j].len

RECURSIVE UnitProduct(_, _)
UnitProduct(ops, i) ==
    IF i > Len(ops) THEN Dimensionless
    ELSE UnitMul(ops[i].unit, UnitProduct(ops, i + 1))

SameDimensionality(ops) ==
    \A i, j \in DOMAIN ops :
        Dimensionality(ops[i].unit) = Dimensionality(ops[j].unit)

\* the operands that bring a dimension into the broadcast result, in order
\* of first appearance
Leading(ops) ==
    SelectSeq([i \in DOMAIN ops |-> [i |-> i, op |-> ops[i]]],
              LAMBDA x : x.op.nd = 1
                  /\ \A j \in 1..(x.i - 1) :
                        ~(ops[j].nd = 1 /\ ops[j].dim = x.op.dim))

\* the coordinates of the result along dimension d: those of an operand
\* that has some
CoordsAlong(ops, d) ==
    LET with == {i \in DOMAIN ops :
                    ops[i].nd = 1 /\ ops[i].dim = d /\ ops[i].coords.has}
    IN  IF with = {} THEN NoCoords
        ELSE ops[CHOOSE i \in with : \A j \in with : i <= j].coords

\* self.function(**variables, **parameters) on operands in symbol order
ApplyFunction(f, ops) ==
    IF ~Aligned(ops) THEN Failure("ValueError")
    ELSE IF f.op = "add" /\ ~SameDimensionality(ops)
    THEN Failure("DimensionalityError")
    ELSE LET lead == Leading(ops)
         IN  [err |-> "none",
              arr |-> [Array([i \in DOMAIN lead |-> lead[i].op.dim],
                             [i \in DOMAIN lead |-> lead[i].op.len],
                             IF f.op = "add" THEN ops[1].unit
                             ELSE UnitProduct(ops, 1))
                       EXCEPT !.coords =
                           [i \in DOMAIN lead |-> CoordsAlong(ops, lead[i].op.dim)]]]

\* mutant: supplied names that collide with bound parameters are not detected
CollidingNames_Ignored(e, kwargs) == {}

\* set(kwargs).intersection(self._parameters)
CollidingNames(e, kwargs) == Keys(kwargs) \cap Keys(e.parameters)

\* mutant: the function takes its arguments by position, in the order of
\* the bindings
evaluate_KeywordOrder(e, kwargs) ==
    IF CollidingNames(e, kwargs) # {} THEN Failure("ValueError")
    ELSE IF Keys(kwargs) \cup Keys(e.parameters) # free_symbols(e)
    THEN Failure("TypeError")
    ELSE LET given == kwargs \o e.parameters
         IN  ApplyFunction(e.expression,
                           [i \in DOMAIN given |-> AsDataArray(given[i][2])])

evaluate(e, kwargs) ==
    IF CollidingNames(e, kwargs) # {} THEN Failure("ValueError")
    ELSE IF Keys(kwargs) \cup Keys(e.parameters) # free_symbols(e)
    THEN Failure("TypeError")
    ELSE LET syms == e.expression.syms
             ops == [i \in DOMAIN syms |->
                        IF Has(kwargs, syms[i])
                        THEN AsDataArray(Get(kwargs, syms[i]))
                        ELSE AsDataArray(Get(e.parameters, syms[i]))]
         IN  ApplyFunction(e.expression, ops)

(***************************************************************************)
(* TimeSeries                                                              *)
(*                                                                         *)
(* An object is [kind, data, arr, time_var_name, units, interp_counter]:   *)
(* `data` is the heap index of the wrapped MathematicalExpression (0 for a *)
(* discrete series), `arr` the DataArray of a discrete series, whose       *)
(* `interpolation` is attrs["interpolation"].                              *)
(***************************************************************************)
_valid_interpolations ==
    {"step", "linear", "nearest", "zero", "slinear", "quadratic", "cubic"}

Second == Unit(0, 1, 0)

\* arguments of the constructor: a quantity (an n-dimensional array of the
\* given lengths), a DataArray, a MathematicalExpression on the heap, or
\* anything else
QData(lens, unit) == [kind |-> "quantity", lens |-> lens, unit |-> unit,
                      arr |-> NoArray, id |-> 0, values |-> <<>>]

\* Q_(values, unit) of a one-dimensional array whose entries the model follows
SampledData(values, unit) ==
    [QData(<<Len(values)>>, unit) EXCEPT !.values = values]

DAData(arr) == [kind |-> "dataarray", lens |-> <<>>, unit |-> Dimensionless,
                arr |-> arr, id |-> 0, values |-> <<>>]

ExprData(id) == [kind |-> "expr", lens |-> <<>>, unit |-> Dimensionless,
                 arr |-> NoArray, id |-> id, values |-> <<>>]

OtherData == [kind |-> "other", lens |-> <<>>, unit |-> Dimensionless,
              arr |-> NoArray, id |-> 0, values |-> <<>>]

\* Q_([1, ..., n], "s") as time values; the empty sequence is time=None
Seconds(n) == [i \in 1..n |-> 2 * i]

\* the fields __init__ sets before it dispatches (lines 316-321)
TimeSeries_fields ==
    [kind |-> "ts", data |-> 0, arr |-> NoArray, time_var_name |-> "",
     units |-> Dimensionless, interp_counter |-> 0]

IndexOf(seq, x) == CHOOSE i \in DOMAIN seq : seq[i] = x

\* the name xr.DataArray(data) gives dimension i, after rename dim_0 -> time
DimName(i) ==
    CASE i = 1 -> "time" [] i = 2 -> "dim_1" [] i = 3 -> "dim_2" [] OTHER -> "dim_n"

TimeSeries_is_discrete(ts) == ts.data = 0

\* property time: None (0 points reported) unless there is more than one
TimeSeries_time_is_None(ts) ==
    ~(TimeSeries_is_discrete(ts) /\ ts.arr.lens[IndexOf(ts.arr.dims, "time")] > 1)

\* property interpolation
TimeSeries_interpolation(ts) ==
    IF TimeSeries_is_discrete(ts) THEN ts.arr.interpolation ELSE "None"

\* mutant: the written value is stored without the membership test
TimeSeries_set_interpolation_Unchecked(ts, interpolation) ==
    IF TimeSeries_is_discrete(ts)
    THEN [err |-> "none",
          obj |-> [ts EXCEPT !.arr.interpolation =
                      IF TimeSeries_time_is_None(ts) /\ interpolation # "step"
                      THEN "step" ELSE interpolation]]
    ELSE [err |-> "none", obj |-> ts]

\* mutant: the mode is stored as given for a series of one time point
TimeSeries_set_interpolation_Unforced(ts, interpolation) ==
    IF TimeSeries_is_discrete(ts)
    THEN IF interpolation \notin _valid_interpolations
         THEN [err |-> "ValueError", obj |-> ts]
         ELSE [err |-> "none", obj |-> [ts EXCEPT !.arr.interpolation = interpolation]]
    ELSE [err |-> "none", obj |-> ts]

\* interpolation.setter
TimeSeries_set_interpolation(ts, interpolation) ==
    IF TimeSeries_is_discrete(ts)
    THEN IF interpolation \notin _valid_interpolations
         THEN [err |-> "ValueError", obj |-> ts]
         ELSE [err |-> "none",
               obj |-> [ts EXCEPT !.arr.interpolation =
                           IF TimeSeries_time_is_None(ts) /\ interpolation # "step"
                           THEN "step" ELSE interpolation]]
    ELSE [err |-> "none", obj |-> ts]

\* data.transpose("time", ...)
TransposeTimeFirst(arr) ==
    LET t == IndexOf(arr.dims, "time")
        order == <<t>> \o SelectSeq([i \in DOMAIN arr.dims |-> i], LAMBDA i : i # t)
    IN  [arr EXCEPT !.dims = [i \in DOMAIN order |-> arr.dims[order[i]]],
                    !.lens = [i \in DOMAIN order |-> arr.lens[order[i]]]]

\* .assign_coords({"time": ...})
assign_time_coords(arr) ==
    [arr EXCEPT !.coords[IndexOf(arr.dims, "time")] = PlainCoords]

\* _initialize_discrete
_initialize_discrete(self, data, time, interpolation) ==
    LET interp == IF interpolation = "None" THEN "step" ELSE interpolation
    IN  IF data.kind = "dataarray"
        THEN IF "time" \notin Range(data.arr.dims)
             THEN [err |-> "KeyError", obj |-> self]
             ELSE TimeSeries_set_interpolation(
                      [self EXCEPT !.arr = TransposeTimeFirst(data.arr)], interp)
        ELSE LET lens == IF data.lens = <<>> THEN <<1>> ELSE data.lens
                 \* line 423: pd.Timedelta(0)
                 t == IF time = <<>> THEN <<0>> ELSE time
             IN  IF lens[1] # Len(t)
                 THEN [err |-> "ValueError", obj |-> self]
                 ELSE TimeSeries_set_interpolation(
                          [self EXCEPT !.arr =
                              [assign_time_coords(
                                   Array([i \in DOMAIN lens |-> DimName(i)], lens,
                                         data.unit))
                               EXCEPT !.time = t, !.values = data.values]],
                          interp)

\* the value at time t of samples interpolated by `method`, for t inside the
\* sampled range: under "step" the last sample at or before t, under "linear"
\* the point on the segment between the neighbouring samples
InterpolatedValue(time, values, method, t) ==
    LET i == CHOOSE j \in DOMAIN time :
                 /\ time[j] <= t
                 /\ \A k \in DOMAIN time : time[k] <= t => time[k] <= time[j]
    IN  IF time[i] = t \/ method = "step" THEN values[i]
        ELSE values[i] + ((values[i + 1] - values[i]) * (t - time[i]))
                             \div (time[i + 1] - time[i])

\* ut.xr_interp_like(arr, {"time": time}, method=method): the array
\* interpolated onto the given time points; the model follows the values
\* under "step" and "linear" at points inside the sampled range
xr_interp_like_time(arr, time, method) ==
    LET inside == \A i \in DOMAIN time :
                      /\ \E j \in DOMAIN arr.time : arr.time[j] <= time[i]
                      /\ \E j \in DOMAIN arr.time : arr.time[j] >= time[i]
    IN  [arr EXCEPT !.lens[IndexOf(arr.dims, "time")] = Len(time),
                    !.time = time,
                    !.values =
                        IF arr.values # <<>> /\ inside /\ method \in {"step", "linear"}
                        THEN [i \in DOMAIN time |->
                                 InterpolatedValue(arr.time, arr.values, method,
                                                   time[i])]
                        ELSE <<>>]

\* mutant: the samples are always interpolated linearly
_interp_time_discrete_Linear(self, time) ==
    xr_interp_like_time(self.arr, time, "linear")

_interp_time_discrete(self, time) ==
    xr_interp_like_time(self.arr, time, TimeSeries_interpolation(self))

\* _interp_time_expression for time points converted to time_unit
_interp_time_expression(h, self, time, time_unit) ==
    LET ev == evaluate(h[self.data],
                  << <<self.time_var_name,
                       Value(TRUE, 1, "time", Len(time), time_unit)>> >>)
    IN  IF ev.err # "none" THEN ev
        ELSE [ev EXCEPT !.arr = [assign_time_coords(@) EXCEPT !.time = time]]

\* lines 612-616: what interp_time does about an already resampled series
\* mutant: repeated resampling is an error
ResamplingNotice_Raises(counter) == IF counter > 0 THEN "raise" ELSE "none"

ResamplingNotice(counter) == IF counter > 0 THEN "warn" ELSE "none"

\* mutant: the counter is carried over without the increment
NextCounter_Same(counter) == counter

\* line 629
NextCounter(counter) == counter + 1

\* interp_time: the events of the call in order, its error and the new
\* TimeSeries
interp_time(h, self, time, time_unit) ==
    LET notice == ResamplingNotice(self.interp_counter)
        pre == IF notice = "none" THEN <<>> ELSE <<notice>>
        made ==
            IF TimeSeries_is_discrete(self)
            THEN LET dax == _interp_time_discrete(self, time)
                 IN  _initialize_discrete(TimeSeries_fields,
                         [QData(dax.lens, dax.unit) EXCEPT !.values = dax.values],
                         time, TimeSeries_interpolation(self))
            ELSE LET ev == _interp_time_expression(h, self, time, time_unit)
                 IN  IF ev.err # "none"
                     THEN [err |-> ev.err, obj |-> TimeSeries_fields]
                     ELSE _initialize_discrete(TimeSeries_fields,
                              DAData(ev.arr), <<>>,
                              TimeSeries_interpolation(self))
    IN  IF notice = "raise"
        THEN [err |-> "Error", events |-> pre, ts |-> TimeSeries_fields]
        ELSE IF made.err # "none"
        THEN [err |-> made.err, events |-> pre \o <<"compute">>,
              ts |-> TimeSeries_fields]
        ELSE [err |-> "none", events |-> pre \o <<"compute", "return">>,
              ts |-> [made.obj EXCEPT
                         !.interp_counter = NextCounter(self.interp_counter)]]

\* mutant: only the 2-element probe is made
ProbeLengths_One == <<2>>

\* lines 463-464: the lengths of the two probe time arrays
ProbeLengths == <<2, 3>>

\* mutant: any number of free variables is accepted
WrongVariableCount_Unchecked(e) == FALSE

\* line 435
WrongVariableCount(e) == num_variables(e) # 1

\* TimeSeries._init_expression for the expression at heap index id
TimeSeries_init_expression(h, self, id) ==
    LET e == h[id]
        names == get_variable_names(e)
        tv == names[1]
        ev == evaluate(e, << <<tv, QScalar(Second)>> >>)
        me == [self EXCEPT !.data = id, !.time_var_name = tv,
                           !.units = ev.arr.unit]
    IN  IF WrongVariableCount(e)
        THEN [err |-> "Exception: 1 free variable", obj |-> self]
        ELSE IF names = <<>> THEN [err |-> "IndexError", obj |-> self]
        ELSE IF ev.err = "DimensionalityError"
        THEN [err |-> "Exception: units", obj |-> self]
        ELSE IF ev.err # "none" THEN [err |-> ev.err, obj |-> self]
        ELSE IF \E i \in DOMAIN ProbeLengths :
                    interp_time(h, me, Seconds(ProbeLengths[i]), Second).err
                        # "none"
        THEN [err |-> "Exception: time arrays", obj |-> self]
        ELSE [err |-> "none", obj |-> me]

\* TimeSeries(data, time, interpolation)
TimeSeries(h, data, time, interpolation) ==
    IF data.kind \in {"quantity", "dataarray"}
    THEN _initialize_discrete(TimeSeries_fields, data, time, interpolation)
    ELSE IF data.kind = "expr"
    THEN TimeSeries_init_expression(h, TimeSeries_fields, data.id)
    ELSE [err |-> "TypeError", obj |-> TimeSeries_fields]

\* mutant: the resampling counter takes part in the comparison
TimeSeries_eq_WithCounter(h, self, other) ==
    IF other.kind # "ts" THEN FALSE
    ELSE IF TimeSeries_is_discrete(self)
    THEN /\ TimeSeries_is_discrete(other)
         /\ self.arr = other.arr
         /\ self.interp_counter = other.interp_counter
    ELSE /\ ~TimeSeries_is_discrete(other)
         /\ MathematicalExpression_eq(h[self.data], h[other.data])

\* __eq__: DataArray.identical compares dimensions, values, coordinates and
\* attributes
TimeSeries_eq(h, self, other) ==
    IF other.kind # "ts" THEN FALSE
    ELSE IF TimeSeries_is_discrete(self)
    THEN TimeSeries_is_discrete(other) /\ self.arr = other.arr
    ELSE /\ ~TimeSeries_is_discrete(other)
         /\ MathematicalExpression_eq(h[self.data], h[other.data])

(***************************************************************************)
(* GenericSeries                                                           *)
(*                                                                         *)
(* An object is [kind, data, arr, variable_units, symbol_dims, units,      *)
(* interpolation].  `data` is the MathematicalExpression the series built  *)
(* for itself (None for a discrete series, whose DataArray is `arr`);      *)
(* `units` is the cached _units, unset for a discrete series.              *)
(***************************************************************************)
NoUnits == [set |-> FALSE, u |-> Dimensionless]

\* a class: GenericSeries or a subclass, with the constraints it declares.
\* A list constraint that is None is the empty list (nothing is required);
\* _allowed_variables is [declared, names], None being not declared.
Class(name, required_dimensions, required_unit_dimensionality, allowed_variables, required_variables) ==
    [name |-> name, _required_dimensions |-> required_dimensions,
     _required_unit_dimensionality |-> required_unit_dimensionality,
     _allowed_variables |-> allowed_variables,
     _required_variables |-> required_variables]

\* lines 719-746: the base class declares nothing
GenericSeriesClass ==
    Class("GenericSeries", <<>>, NoUnits,
          [declared |-> FALSE, names |-> <<>>], <<>>)

\* _shape = None
NoShape == [set |-> FALSE, lens |-> <<>>]

GenericSeries_fields ==
    [kind |-> "gs", cls |-> GenericSeriesClass, data |-> None, arr |-> NoArray,
     variable_units |-> <<>>, symbol_dims |-> <<>>, units |-> NoUnits,
     _shape |-> NoShape, interpolation |-> "linear"]

GenericSeries_is_expression(gs) == gs.data.kind = "expr"

\* a formula given as a string
FormulaData(f) == [kind |-> "formula", f |-> f, id |-> 0]

\* discrete data with its dims list and the dimensions that get coordinates
DiscreteData(dims, lens, unit, coords) ==
    [kind |-> "quantity", dims |-> dims, lens |-> lens, unit |-> unit,
     coords |-> coords, id |-> 0]

\* f"{cls.__name__} requires dimension '{v}'."
RequiresDimension(v) ==
    CASE v = "s" -> "ValueError: requires dimension 's'"
      [] v = "t" -> "ValueError: requires dimension 't'"
      [] v = "time" -> "ValueError: requires dimension 'time'"
      [] OTHER -> "ValueError: requires dimension"

\* mutant: the required dimensions are not looked at
_check_constraints_NoDimensions(cls, dims, units_out) ==
    IF cls._required_unit_dimensionality.set
        /\ Dimensionality(units_out)
              # Dimensionality(cls._required_unit_dimensionality.u)
    THEN "ValueError: requires unit dimensionality"
    ELSE "none"

\* _check_constraints: the error raised ("none" if none); dims is a set
_check_constraints(cls, dims, units_out) ==
    LET req == cls._required_dimensions
        missing == {i \in DOMAIN req : req[i] \notin dims}
    IN  IF missing # {}
        THEN RequiresDimension(req[CHOOSE i \in missing : \A j \in missing : i <= j])
        ELSE IF cls._required_unit_dimensionality.set
                /\ Dimensionality(units_out)
                      # Dimensionality(cls._required_unit_dimensionality.u)
        THEN "ValueError: requires unit dimensionality"
        ELSE "none"

_check_constraints_discrete(cls, arr) ==
    IF cls.name = "GenericSeries" THEN "none"
    ELSE _check_constraints(cls, Range(arr.dims), arr.unit)

\* _init_discrete for a DataArray
GenericSeries_init_dataarray(self, arr) ==
    LET c == _check_constraints_discrete(self.cls, arr)
    IN  IF c # "none" THEN [err |-> c, obj |-> self]
        ELSE [err |-> "none", obj |-> [self EXCEPT !.arr = arr]]

\* _init_discrete for a quantity: xr.DataArray(data, dims, coords) with the
\* coordinates dequantified (their units kept as an attribute)
GenericSeries_init_discrete(self, data) ==
    IF Len(data.dims) # Len(data.lens)
        \/ \E k \in Keys(data.coords) :
              \/ k \notin Range(data.dims)
              \/ Get(data.coords, k).len # data.lens[IndexOf(data.dims, k)]
    THEN [err |-> "ValueError", obj |-> self]
    ELSE GenericSeries_init_dataarray(self,
             [Array(data.dims, data.lens, data.unit) EXCEPT
                 !.coords = [i \in DOMAIN data.dims |->
                                IF Has(data.coords, data.dims[i])
                                THEN UnitCoords(Get(data.coords, data.dims[i]).unit)
                                ELSE NoCoords]])

\* mutant: both passes probe with the same lengths
ProbeLength_NoOffset(i, offset) == i + 2

\* range(i + 2 + offset): the probe length of variable number i (from 0)
ProbeLength(i, offset) == i + 2 + offset

\* expr.evaluate(**scalar_params)
ScalarProbe(expr, units) ==
    evaluate(expr, [i \in DOMAIN units |-> <<units[i][1], QScalar(units[i][2])>>])

\* expr.evaluate(**array_params) of one pass
ArrayProbe(expr, dims, units, offset) ==
    LET made == [i \in DOMAIN units |->
                    DataArray(QArray(ProbeLength(i - 1, offset), units[i][2]),
                              Get(dims, units[i][1]))]
    IN  IF \E i \in DOMAIN made : made[i].err # "none"
        THEN Failure("ValueError")
        ELSE evaluate(expr, [i \in DOMAIN units |-> <<units[i][1], made[i].val>>])

_eval_expr(expr, dims, units) ==
    LET first == ScalarProbe(expr, units)
        p0 == ArrayProbe(expr, dims, units, 0)
        p1 == ArrayProbe(expr, dims, units, 1)
        fail(e) == [err |-> e, units |-> Dimensionless, shape |-> NoShape]
    IN  IF first.err = "DimensionalityError" THEN fail("ValueError: units")
        ELSE IF first.err \notin {"none", "ValueError"} THEN fail(first.err)
        ELSE IF p0.err = "ValueError" THEN fail("ValueError: array lengths")
        ELSE IF p0.err # "none" THEN fail(p0.err)
        ELSE IF p1.err = "ValueError" THEN fail("ValueError: array lengths")
        ELSE IF p1.err # "none" THEN fail(p1.err)
        ELSE IF first.err = "ValueError" THEN fail("UnboundLocalError")
        ELSE [err |-> "none", units |-> to_reduced_units(first.arr.unit),
              shape |-> NoShape]

\* the variables that are no key of dictionary d, in order
Missing(d, names) == SelectSeq(names, LAMBDA v : ~Has(d, v))

\* lines 887-889: dims[v] = v, the name itself (a string), when v is missing
FillDims(dims, names) ==
    LET m == Missing(dims, names)
    IN  dims \o [i \in DOMAIN m |-> <<m[i], StrDims(m[i])>>]

\* lines 890-891: units[v] = U_("") when v is missing
FillUnits(units, names) ==
    LET m == Missing(units, names)
    IN  units \o [i \in DOMAIN m |-> <<m[i], Dimensionless>>]

\* the parameters of an expression as the dict handed on
ParametersOf(e) ==
    DictArg([i \in DOMAIN e.parameters |->
                <<e.parameters[i][1], PlainParam(e.parameters[i][2])>>])

\* mutant: the dimensions of the parameters are left out
_get_expression_dims_VariablesOnly(expr, symbol_dims) ==
    UNION {PySet(symbol_dims[i][2]) : i \in DOMAIN symbol_dims}

\* _get_expression_dims, as a set
_get_expression_dims(expr, symbol_dims) ==
    UNION {PySet(symbol_dims[i][2]) : i \in DOMAIN symbol_dims}
        \cup {expr.parameters[i][2].dim :
                i \in {j \in DOMAIN expr.parameters :
                          /\ expr.parameters[j][2].nd = 1
                          /\ expr.parameters[j][2].len > 0}}

\* _check_constraints_expression: the error raised ("none" if none)
_check_constraints_expression(cls, expr, var_dims, expr_units) ==
    LET names == get_variable_names(expr)
        allowed == cls._allowed_variables
        required == cls._required_variables
    IN  IF cls.name = "GenericSeries" THEN "none"
        ELSE IF allowed.declared
                /\ \E i \in DOMAIN names : names[i] \notin Range(allowed.names)
        THEN "ValueError: variable not allowed"
        ELSE IF \E i \in DOMAIN required : required[i] \notin Range(names)
        THEN "ValueError: requires expression variable"
        ELSE _check_constraints(cls, _get_expression_dims(expr, var_dims),
                                expr_units)

\* GenericSeries._init_expression; data is a formula or an expression on the
\* heap, whose formula and parameters are taken over into a new expression
GenericSeries_init_expression(h, self, data, dims, parameters, units) ==
    LET made == IF data.kind = "expr"
                THEN MathematicalExpression(h[data.id].expression,
                                            ParametersOf(h[data.id]))
                ELSE MathematicalExpression(data.f, parameters)
        expr == made.obj
        names == get_variable_names(expr)
        dims1 == FillDims(dims.items, names)
        units1 == FillUnits(units.items, names)
        ev == _eval_expr(expr, dims1, units1)
        c == _check_constraints_expression(self.cls, expr, dims1, ev.units)
    IN  IF made.err # "none" THEN [err |-> made.err, obj |-> self]
        ELSE IF num_variables(expr) = 0
        THEN [err |-> "ValueError: no variables", obj |-> self]
        ELSE IF \E k \in Keys(units.items) : k \notin Range(names)
        THEN [err |-> "KeyError", obj |-> self]
        ELSE IF ev.err # "none" THEN [err |-> ev.err, obj |-> self]
        ELSE IF c # "none" THEN [err |-> c, obj |-> self]
        ELSE [err |-> "none",
              obj |-> [self EXCEPT !.units = [set |-> TRUE, u |-> ev.units],
                                   !._shape = ev.shape,
                                   !.data = expr,
                                   !.variable_units = units1,
                                   !.symbol_dims = dims1]]

\* GenericSeries(data, dims, coords, units, interpolation, parameters): line
\* 834 stores "linear" and no line reads the interpolation argument
GenericSeries(cls, h, data, dims, parameters, units, interpolation) ==
    LET self == [GenericSeries_fields EXCEPT !.cls = cls]
    IN  IF data.kind = "quantity"
        THEN GenericSeries_init_discrete(self, data)
        ELSE IF data.kind \in {"expr", "formula"}
        THEN GenericSeries_init_expression(h, self, data, dims, parameters,
                                           units)
        ELSE [err |-> "TypeError", obj |-> self]

\* property shape of a TimeSeries of discrete data: the shape of the array
TimeSeries_shape(ts) == [err |-> "none", shape |-> ts.arr.lens]

\* property shape, lines 1157-1162
GenericSeries_shape(gs) ==
    IF gs._shape.set THEN [err |-> "none", shape |-> gs._shape.lens]
    ELSE [err |-> "NotImplementedError", shape |-> <<>>]

\* interpolation (getter)
GenericSeries_interpolation(gs) == gs.interpolation

\* interpolation.setter, lines 1134-1138
GenericSeries_set_interpolation(gs, val) ==
    IF val \notin {"linear", "step"} THEN [err |-> "ValueError", obj |-> gs]
    ELSE [err |-> "none", obj |-> [gs EXCEPT !.interpolation = val]]

GenericSeries_dims(gs) ==
    IF GenericSeries_is_expression(gs)
    THEN _get_expression_dims(gs.data, gs.symbol_dims)
    ELSE Range(gs.arr.dims)

GenericSeries_units(gs) == IF gs.units.set THEN gs.units.u ELSE gs.arr.unit

GenericSeries_parameter_names(gs) == KeyList(gs.variable_units)

\* the error the constraint checks of the class of gs raise for gs as it is
\* ("none" if none): what _check_constraints_discrete and
\* _check_constraints_expression do at construction
ConstraintError(gs) ==
    IF GenericSeries_is_expression(gs)
    THEN _check_constraints_expression(gs.cls, gs.data, gs.symbol_dims,
                                       GenericSeries_units(gs))
    ELSE _check_constraints_discrete(gs.cls, gs.arr)

\* lines 1004-1006: Q_(v), a scalar expanded to an array of length 1
CoerceCallValue(v) == IF v.nd = 0 THEN QArray(1, v.unit) ELSE v

\* lines 1008-1010: the DataArray made of a value for an expression
CallInputExpression(self, k, v) ==
    IF ~Has(self.symbol_dims, k) THEN [err |-> "KeyError", val |-> NoValue]
    ELSE LET d == Get(self.symbol_dims, k)
             da == DataArray(CoerceCallValue(v), d)
         IN  IF DADims(d) = <<>> /\ ~d.isStr
             THEN [err |-> "IndexError", val |-> NoValue]
             ELSE IF da.err # "none" \/ PyFirst(d) \notin Range(DADims(d))
             THEN [err |-> "ValueError", val |-> NoValue]
             ELSE [err |-> "none", val |-> [da.val EXCEPT !.coords = PlainCoords]]

\* lines 1012-1013: the value converted to the unit of the coordinate
CallInputDiscrete(self, k, v) ==
    LET cv == CoerceCallValue(v)
        i == IndexOf(self.arr.dims, k)
    IN  IF k \notin Range(self.arr.dims) \/ ~self.arr.coords[i].hasunits
        THEN [err |-> "KeyError", val |-> NoValue]
        ELSE IF Dimensionality(cv.unit) # Dimensionality(self.arr.coords[i].units)
        THEN [err |-> "DimensionalityError", val |-> NoValue]
        ELSE [err |-> "none",
              val |-> [Value(TRUE, 1, k, cv.len, Dimensionless)
                       EXCEPT !.coords = PlainCoords]]

\* the loop of lines 1003-1014 from entry i on: the first error, or `input`
RECURSIVE CallInputs(_, _, _, _)
CallInputs(self, kwargs, i, input) ==
    IF i > Len(kwargs) THEN [err |-> "none", input |-> input]
    ELSE LET k == kwargs[i][1]
             r == IF GenericSeries_is_expression(self)
                  THEN CallInputExpression(self, k, kwargs[i][2])
                  ELSE CallInputDiscrete(self, k, kwargs[i][2])
         IN  IF r.err # "none" THEN [err |-> r.err, input |-> input]
             ELSE CallInputs(self, kwargs, i + 1, Append(input, <<k, r.val>>))

\* the loop of lines 1023-1026 from entry i on, on the copy new_series
RECURSIVE BindVariables(_, _, _, _)
BindVariables(self, new_series, kwargs, i) ==
    IF i > Len(kwargs) THEN [err |-> "none", obj |-> new_series]
    ELSE LET k == kwargs[i][1]
             r == set_parameter(new_series.data, k,
                      TupleParam(kwargs[i][2], Get(self.symbol_dims, k)))
         IN  IF r.err # "none" THEN [err |-> r.err, obj |-> new_series]
             ELSE IF ~Has(new_series.symbol_dims, k)
                     \/ ~Has(new_series.variable_units, k)
             THEN [err |-> "KeyError", obj |-> new_series]
             ELSE BindVariables(self,
                      [new_series EXCEPT
                          !.data = r.obj,
                          !.symbol_dims = DictPop(@, k),
                          !.variable_units = DictPop(@, k)],
                      kwargs, i + 1)

\* ut.xr_interp_like(self._data, input): the array interpolated along the
\* dimensions of input
xr_interp_like(arr, input) ==
    [arr EXCEPT !.lens = [i \in DOMAIN arr.dims |->
                             IF Has(input, arr.dims[i])
                             THEN Get(input, arr.dims[i]).len ELSE arr.lens[i]]]

\* mutant: new_series = self, the receiver itself is rebound and returned
ReceiverAfterBinding_Aliased(self, new_series) == new_series

\* line 1022: new_series is a deep copy, the receiver keeps its state
ReceiverAfterBinding(self, new_series) == self

\* line 1018
IsFullBinding(self, kwargs) == Len(kwargs) = num_variables(self.data)

\* __call__(**kwargs): the error, the series returned and the receiver after
\* the call
GenericSeries_call(self, kwargs) ==
    LET in == CallInputs(self, kwargs, 1, <<>>)
        fail(e) == [err |-> e, obj |-> GenericSeries_fields, self |-> self]
    IN  IF in.err # "none" THEN fail(in.err)
        ELSE IF GenericSeries_is_expression(self)
        THEN IF IsFullBinding(self, kwargs)
             THEN LET ev == evaluate(self.data, in.input)
                  IN  IF ev.err # "none" THEN fail(ev.err)
                      ELSE [err |-> "none",
                            obj |-> GenericSeries_init_dataarray(
                                        GenericSeries_fields, ev.arr).obj,
                            self |-> self]
             ELSE LET b == BindVariables(self, self, kwargs, 1)
                  IN  IF b.err # "none" THEN fail(b.err)
                      ELSE [err |-> "none", obj |-> b.obj,
                            self |-> ReceiverAfterBinding(self, b.obj)]
        ELSE IF \E k \in Keys(in.input) : k \notin Range(self.arr.dims)
        THEN fail("KeyError: not a valid dimension")
        ELSE [err |-> "none",
              obj |-> GenericSeries_init_dataarray(
                          GenericSeries_fields,
                          xr_interp_like(self.arr, in.input)).obj,
              self |-> self]

\* GenericSeries defines no __eq__: == is the comparison of object, which
\* holds of an object and itself only (i and j are identities)
GenericSeries_eq(i, j) == i = j

\* the object at heap index id built again from its fields: an expression
\* from (expression, parameters), a discrete TimeSeries from (data, time
\* coordinate, interpolation), an expression-backed one from its expression,
\* a GenericSeries from (expression, parameters, dims, units)
Reconstructed(h, id) ==
    LET o == h[id]
        params(e) == DictArg([i \in DOMAIN e.parameters |->
                                 <<e.parameters[i][1], PlainParam(e.parameters[i][2])>>])
    IN  CASE o.kind = "expr" -> MathematicalExpression(o.expression, params(o))
          [] o.kind = "ts" ->
                IF TimeSeries_is_discrete(o)
                THEN TimeSeries(h, [QData(o.arr.lens, o.arr.unit)
                                       EXCEPT !.values = o.arr.values],
                                o.arr.time, o.arr.interpolation)
                ELSE TimeSeries(h, ExprData(o.data), <<>>, "None")
          [] OTHER ->
                GenericSeries(o.cls, h, FormulaData(o.data.expression),
                              DictArg(o.symbol_dims), params(o.data),
                              DictArg(o.variable_units), o.interpolation)

(***************************************************************************)
(* The inputs the operations are called with.                              *)
(***************************************************************************)
Meter == Unit(1, 0, 0)

MeterPerSecond == Unit(1, -1, 0)

Millisecond == Unit(0, 0, 1)

\* dictionaries of one entry, and of at most two entries, over the given
\* names and values
Dicts1(names, values) == {DictArg(<< <<k, v>> >>) : k \in names, v \in values}

Dicts(names, values) ==
    {DictArg(<<>>)} \cup Dicts1(names, values)
        \cup {DictArg(<< <<k[1], v1>>, <<k[2], v2>> >>) :
                k \in {x \in names \X names : x[1] # x[2]},
                v1 \in values, v2 \in values}

\* a*t, the formula of the series of the object specifications
Formulas == {Formula("mul", <<"a", "t">>)}

\* "b" is no symbol of any formula
ParamInputs ==
    {NoParams, NotADict}
        \cup Dicts({"a", "t", "b"}, {PlainParam(QScalar(MeterPerSecond))})

InterpolationInputs == {"None", "linear", "spline"}

DiscreteTimeSeriesInputs ==
    {QData(<<>>, Meter), OtherData} \cup {QData(<<n>>, Meter) : n \in 1..MaxTime}

\* the arguments of the GenericSeries constructor
DimsInputs == {NoParams, DictArg(<< <<"t", StrDims("time")>> >>)}

SeriesParamInputs ==
    {NoParams, DictArg(<< <<"a", PlainParam(QScalar(MeterPerSecond))>> >>)}

UnitsInputs == {NoParams, DictArg(<< <<"t", Second>> >>)}

DiscreteInputs ==
    {DiscreteData(<<"t">>, <<n>>, Meter,
                  IF c THEN << <<"t", QArray(n, Second)>> >> ELSE <<>>) :
        n \in {1, MaxTime}, c \in BOOLEAN}
        \cup {OtherData}

\* the keyword arguments of a GenericSeries call
CallInputSets ==
    {DictArg(<<>>)}
        \cup Dicts1({"a", "t"},
                    {QScalar(Second), QArray(0, Second), QArray(MaxTime, Second),
                     QArray(MaxTime, Millisecond)})
        \cup {DictArg(<< <<"t", QArray(MaxTime, Second)>>,
                         <<"a", QArray(MaxTime, Second)>> >>)}

\* an expression parameter "a" that is an array of n values along dimension d
ArrayParameter(n, d) ==
    DictArg(<< <<"a", TupleParam(QArray(n, MeterPerSecond), StrDims(d))>> >>)

ScalarParameter == DictArg(<< <<"a", PlainParam(QScalar(MeterPerSecond))>> >>)

\* parameters of a*t for a TimeSeries: none, a scalar, an array along another
\* dimension, and arrays along "time" of every length
TimeArrayParams ==
    {NoParams, ScalarParameter, ArrayParameter(2, "x")}
        \cup {ArrayParameter(n, "time") : n \in 1..MaxLen}

\* a*t and a*x*t with dims that put t and x on one dimension, parameters along
\* the default dimension of t, and units that make t the first variable;
\* a*time has a variable whose name is longer than one character
SeriesFormulas ==
    {Formula("mul", <<"a", "t">>), Formula("mul", <<"a", "x", "t">>),
     Formula("mul", <<"a", "time">>)}

CollisionDims ==
    {NoParams, DictArg(<< <<"t", StrDims("x")>> >>),
     DictArg(<< <<"x", StrDims("t")>> >>)}

SeriesArrayParams ==
    {NoParams, ScalarParameter} \cup {ArrayParameter(n, "t") : n \in 1..MaxLen}

BindingCalls ==
    {DictArg(<< <<"t", QArray(MaxTime, Second)>> >>),
     DictArg(<< <<"t", QArray(MaxTime, Second)>>,
                <<"a", QArray(MaxTime, Second)>> >>)}

\* the keyword arguments of evaluate: for a and t, a quantity array and an
\* array along a named dimension
EvaluateInputs ==
    Dicts({"a", "t"},
          {QArray(MaxTime, Second), Value(TRUE, 1, "x", MaxTime, Second)})

\* a*t, a*(t + 1) - a, which equals a*t without being written like it, and
\* a + t
EqualityFormulas ==
    {Formula("mul", <<"a", "t">>), Formula("factored", <<"a", "t">>),
     Formula("add", <<"a", "t">>)}

\* the values written to the interpolation property
InterpolationWrites == {"step", "linear", "spline"}

\* time=None and Q_([1, ..., n], "s"); the times interp_time is called with
TimeInputs == {Seconds(n) : n \in 0..MaxTime}

\* GenericSeries and two subclasses that declare required dimensions
ConstraintClasses ==
    {GenericSeriesClass,
     Class("RequiresS", <<"s">>, NoUnits, [declared |-> FALSE, names |-> <<>>],
           <<>>),
     Class("RequiresST", <<"s", "t">>, NoUnits,
           [declared |-> FALSE, names |-> <<>>], <<>>)}

\* subclasses that declare constraints: t as required dimension and required
\* variable; a length as output, of the variables a and t only
SubclassInputs ==
    {Class("RequiresT", <<"t">>, NoUnits, [declared |-> FALSE, names |-> <<>>],
           <<"t">>),
     Class("LengthSeries", <<>>, [set |-> TRUE, u |-> Meter],
           [declared |-> TRUE, names |-> <<"a", "t">>], <<>>)}

(***************************************************************************)
(* State: the heap of objects, and the outcome of the last operation: its  *)
(* receiver, its error, the events it emitted and the object it returned   *)
(* (`result` is the heap index of that object when the caller kept it).    *)
(* `args` are the arguments of a GenericSeries construction or call.       *)
(***************************************************************************)
Outcome(op, recv, args, err, obj, result, events) ==
    [op |-> op, recv |-> recv, args |-> args, err |-> err, obj |-> obj,
     result |-> result, events |-> events]

NoArgs ==
    [kwargs |-> <<>>, cls |-> GenericSeriesClass, data |-> OtherData,
     f |-> Formula("none", <<>>), dims |-> NoParams, parameters |-> NoParams,
     units |-> NoParams]

CallArgs(kwargs) == [NoArgs EXCEPT !.kwargs = kwargs]

SeriesArgs(cls, data, dims, parameters, units) ==
    [NoArgs EXCEPT !.cls = cls, !.data = data,
                   !.f = IF data.kind = "formula" THEN data.f ELSE @,
                   !.dims = dims, !.parameters = parameters, !.units = units]

Init ==
    /\ heap = <<>>
    /\ last = Outcome("none", 0, NoArgs, "none", None, 0, <<>>)

Ids(kind) == {i \in DOMAIN heap : heap[i].kind = kind}

HasRoom(kind) ==
    IF kind = "gs" THEN Cardinality(Ids("gs")) < MaxSeries
    ELSE Cardinality(Ids("expr") \cup Ids("ts")) < MaxObj

\* an operation on receiver recv that leaves the heap as h and returns a new
\* object (r.obj) unless it raises: the caller keeps the object, or drops it
Returns(op, recv, args, h, r, events) ==
    IF r.err = "none"
    THEN \E keep \in BOOLEAN :
            /\ keep => HasRoom(r.obj.kind)
            /\ heap' = IF keep THEN Append(h, r.obj) ELSE h
            /\ last' = Outcome(op, recv, args, "none", r.obj,
                               IF keep THEN Len(h) + 1 ELSE 0, events)
    ELSE /\ heap' = h
         /\ last' = Outcome(op, recv, args, r.err, None, 0, events)

\* MathematicalExpression(f, params)
NewMathematicalExpression(formulas, paramsets) ==
    \E f \in formulas, params \in paramsets :
        Returns("MathematicalExpression", 0, NoArgs, heap,
                MathematicalExpression(f, params), <<>>)

\* set_parameters on an expression the caller holds: one it constructed,
\* which is also the one a TimeSeries made of it returns as `data`
SetParameters(paramsets) ==
    \E id \in Ids("expr"), params \in paramsets :
        LET r == set_parameters(heap[id], params)
        IN  /\ heap' = [heap EXCEPT ![id] = r.obj]
            /\ last' = Outcome("set_parameters", id, NoArgs, r.err, None, 0,
                               <<>>)

\* TimeSeries(data, time, interpolation) of discrete data
NewDiscreteTimeSeries(datas, times, interpolations) ==
    \E data \in datas, time \in times, interpolation \in interpolations :
        Returns("TimeSeries", 0, NoArgs, heap,
                TimeSeries(heap, data, time, interpolation), <<>>)

\* TimeSeries(expression)
NewExpressionTimeSeries ==
    \E id \in Ids("expr") :
        Returns("TimeSeries", id, NoArgs, heap,
                TimeSeries(heap, ExprData(id), <<>>, "None"), <<>>)

\* series.interp_time(time)
InterpTime(times) ==
    \E id \in Ids("ts"), time \in times :
        LET r == interp_time(heap, heap[id], time, Second)
        IN  Returns("interp_time", id, NoArgs, heap,
                    [err |-> r.err, obj |-> r.ts], r.events)

\* GenericSeries(data, dims, coords) of discrete data
NewDiscreteGenericSeries(classes, datas) ==
    \E cls \in classes, data \in datas :
        Returns("GenericSeries", 0,
                SeriesArgs(cls, data, NoParams, NoParams, NoParams), heap,
                GenericSeries(cls, heap, data, NoParams, NoParams, NoParams,
                              "None"),
                <<>>)

\* GenericSeries(formula, dims, units=units, parameters=parameters)
NewExpressionGenericSeries(classes, formulas, dimsets, paramsets, unitsets) ==
    \E cls \in classes, f \in formulas, dims \in dimsets,
       parameters \in paramsets, units \in unitsets :
        Returns("GenericSeries", 0,
                SeriesArgs(cls, FormulaData(f), dims, parameters, units), heap,
                GenericSeries(cls, heap, FormulaData(f), dims, parameters,
                              units, "None"),
                <<>>)

\* GenericSeries(data, interpolation=interpolation)
NewGenericSeriesInterpolation(datas, interpolations) ==
    \E data \in datas, interpolation \in interpolations :
        Returns("GenericSeries", 0,
                [SeriesArgs(GenericSeriesClass, data, NoParams, NoParams, NoParams)
                    EXCEPT !.kwargs = << <<"interpolation", interpolation>> >>],
                heap,
                GenericSeries(GenericSeriesClass, heap, data, NoParams, NoParams,
                              NoParams, interpolation),
                <<>>)

\* series.interpolation = val
SetSeriesInterpolation(interpolations) ==
    \E id \in Ids("gs"), val \in interpolations :
        LET r == GenericSeries_set_interpolation(heap[id], val)
        IN  /\ heap' = [heap EXCEPT ![id] = r.obj]
            /\ last' = Outcome("set_interpolation", id,
                               CallArgs(<< <<"interpolation", val>> >>),
                               r.err, None, 0, <<>>)

\* series.shape of a generic series or of a time series of discrete data
ReadShape ==
    \E id \in DOMAIN heap :
        LET o == heap[id]
            r == IF o.kind = "gs" THEN GenericSeries_shape(o)
                 ELSE TimeSeries_shape(o)
        IN  /\ o.kind = "gs" \/ (o.kind = "ts" /\ TimeSeries_is_discrete(o))
            /\ heap' = heap
            /\ last' = Outcome("shape", id, NoArgs, r.err,
                               IF r.err = "none"
                               THEN [kind |-> "shape", value |-> r.shape] ELSE None,
                               0, <<>>)

\* GenericSeries(formula, ...) of which the caller only looks at the outcome
ProbeExpressionGenericSeries(classes, formulas, dimsets, paramsets, unitsets) ==
    \E cls \in classes, f \in formulas, dims \in dimsets,
       parameters \in paramsets, units \in unitsets :
        LET r == GenericSeries(cls, heap, FormulaData(f), dims, parameters,
                               units, "None")
        IN  /\ heap' = heap
            /\ last' = Outcome("GenericSeries", 0,
                               SeriesArgs(cls, FormulaData(f), dims,
                                          parameters, units),
                               r.err,
                               IF r.err = "none" THEN r.obj ELSE None, 0, <<>>)

\* series(**kwargs)
CallGenericSeries(kwargsets) ==
    \E id \in Ids("gs"), kwargs \in kwargsets :
        LET r == GenericSeries_call(heap[id], kwargs.items)
        IN  Returns("call", id, CallArgs(kwargs.items),
                    [heap EXCEPT ![id] = r.self], r, <<>>)

\* expression == other and expression.equals(other, check_parameters,
\* check_structural_equality); other = 0 is an object that is no
\* MathematicalExpression
Compare ==
    \E id \in Ids("expr"), other \in Ids("expr") \cup {0},
       op \in {"__eq__", "equals"}, cp \in BOOLEAN, cs \in BOOLEAN :
        LET o == IF other = 0 THEN None ELSE heap[other]
            b == IF op = "__eq__" THEN MathematicalExpression_eq(heap[id], o)
                 ELSE equals(heap[id], o, cp, cs)
        IN  /\ op = "__eq__" => (cp /\ cs)
            /\ heap' = heap
            /\ last' = Outcome(op, id,
                               CallArgs(<< <<"other", other>>,
                                           <<"check_parameters", cp>>,
                                           <<"check_structural_equality", cs>> >>),
                               "none", [kind |-> "bool", value |-> b], 0, <<>>)

\* rebuilt = the object built again from its fields; original == rebuilt
Rebuild ==
    \E id \in DOMAIN heap :
        LET r == Reconstructed(heap, id)
            o == heap[id]
            equal == CASE o.kind = "expr" -> MathematicalExpression_eq(o, r.obj)
                       [] o.kind = "ts" -> TimeSeries_eq(heap, o, r.obj)
                       [] OTHER -> GenericSeries_eq(id, Len(heap) + 1)
        IN  /\ heap' = heap
            /\ last' = Outcome("rebuild", id, NoArgs, r.err,
                               IF r.err = "none"
                               THEN [kind |-> "bool", value |-> equal] ELSE None,
                               0, <<>>)

\* series.interpolation = interpolation
SetInterpolation(interpolations) ==
    \E id \in Ids("ts"), interpolation \in interpolations :
        LET r == TimeSeries_set_interpolation(heap[id], interpolation)
        IN  /\ heap' = [heap EXCEPT ![id] = r.obj]
            /\ last' = Outcome("set_interpolation", id,
                               CallArgs(<< <<"interpolation", interpolation>> >>),
                               r.err, None, 0, <<>>)

\* expression.evaluate(**kwargs): "function" is the call of the lambdified
\* formula (line 273)
Evaluate(kwargsets) ==
    \E id \in Ids("expr"), kwargs \in kwargsets :
        LET e == heap[id]
            r == evaluate(e, kwargs.items)
        IN  /\ heap' = heap
            /\ last' = Outcome("evaluate", id, CallArgs(kwargs.items), r.err,
                               IF r.err = "none"
                               THEN [kind |-> "array", arr |-> r.arr] ELSE None,
                               0,
                               IF CollidingNames(e, kwargs.items) = {}
                               THEN <<"function">> ELSE <<>>)

(***************************************************************************)
(* Spec: expressions and the time series made of them.                     *)
(***************************************************************************)
Next ==
    \/ NewMathematicalExpression(Formulas, ParamInputs)
    \/ SetParameters(ParamInputs \ {NoParams})
    \/ NewDiscreteTimeSeries(DiscreteTimeSeriesInputs, TimeInputs \ {Seconds(1)},
                             InterpolationInputs)
    \/ NewExpressionTimeSeries
    \/ InterpTime({Seconds(1), Seconds(MaxTime)})

Spec == Init /\ [][Next]_vars

(***************************************************************************)
(* SpecGS: generic series and the series their calls return.               *)
(***************************************************************************)
NextGS ==
    \/ NewDiscreteGenericSeries({GenericSeriesClass}, DiscreteInputs)
    \/ NewExpressionGenericSeries({GenericSeriesClass}, Formulas, DimsInputs,
                                  SeriesParamInputs, UnitsInputs)
    \/ CallGenericSeries(CallInputSets)

SpecGS == Init /\ [][NextGS]_vars

(***************************************************************************)
(* SpecFrame: resampling a time series and calling a generic series.       *)
(***************************************************************************)
NextFrame ==
    \/ NewMathematicalExpression(Formulas, {ScalarParameter})
    \/ NewDiscreteTimeSeries({QData(<<MaxTime>>, Meter)}, {Seconds(MaxTime)},
                             {"linear"})
    \/ NewExpressionTimeSeries
    \/ InterpTime({Seconds(MaxTime)})
    \/ NewDiscreteGenericSeries({GenericSeriesClass},
           {DiscreteData(<<"t">>, <<MaxTime>>, Meter,
                         << <<"t", QArray(MaxTime, Second)>> >>)})
    \/ NewExpressionGenericSeries({GenericSeriesClass}, Formulas, {NoParams},
                                  {NoParams}, {NoParams})
    \/ CallGenericSeries(BindingCalls)

SpecFrame == Init /\ [][NextFrame]_vars

(***************************************************************************)
(* SpecProbe: time series of expressions with array parameters.            *)
(***************************************************************************)
NextProbe ==
    \/ NewMathematicalExpression(Formulas, TimeArrayParams)
    \/ NewExpressionTimeSeries
    \/ InterpTime(TimeInputs \ {<<>>})

SpecProbe == Init /\ [][NextProbe]_vars

(***************************************************************************)
(* SpecSeriesProbe: generic series of expressions whose symbols share a    *)
(* dimension.                                                              *)
(***************************************************************************)
NextSeriesProbe ==
    \/ ProbeExpressionGenericSeries({GenericSeriesClass}, SeriesFormulas,
                                    CollisionDims, SeriesArrayParams,
                                    UnitsInputs)
    \/ NewExpressionGenericSeries({GenericSeriesClass}, Formulas, {NoParams},
                                  {ScalarParameter}, {NoParams})
    \/ CallGenericSeries({DictArg(<< <<"t", QArray(MaxTime, Second)>> >>)})

SpecSeriesProbe == Init /\ [][NextSeriesProbe]_vars

(***************************************************************************)
(* SpecConstraints: generic series of classes that declare constraints.    *)
(***************************************************************************)
NextConstraints ==
    \/ NewDiscreteGenericSeries(ConstraintClasses,
           {DiscreteData(dims, [i \in DOMAIN dims |-> MaxTime], Meter, <<>>) :
               dims \in {<<"t">>, <<"s">>, <<"s", "t">>}})
    \/ ProbeExpressionGenericSeries(ConstraintClasses, Formulas,
           {NoParams, DictArg(<< <<"t", StrDims("s")>> >>),
            DictArg(<< <<"t", ListDims(<<"s">>)>> >>)},
           {ScalarParameter, ArrayParameter(2, "s")}, {NoParams})
    \/ CallGenericSeries({DictArg(<< <<"t", QArray(MaxTime, Second)>> >>)})

SpecConstraints == Init /\ [][NextConstraints]_vars

(***************************************************************************)
(* SpecExpr: expressions, their parameters and their evaluation.           *)
(***************************************************************************)
NextExpr ==
    \/ NewMathematicalExpression(Formulas, {NoParams, ScalarParameter})
    \/ SetParameters(Dicts1({"a", "t", "b"}, {PlainParam(QScalar(MeterPerSecond))}))
    \/ Evaluate(EvaluateInputs)

SpecExpr == Init /\ [][NextExpr]_vars

(***************************************************************************)
(* SpecEquals: expressions and their comparisons.                          *)
(***************************************************************************)
NextEquals ==
    \/ NewMathematicalExpression(EqualityFormulas,
           {ScalarParameter, DictArg(<< <<"a", PlainParam(QScalar(Meter))>> >>)})
    \/ Compare

SpecEquals == Init /\ [][NextEquals]_vars

(***************************************************************************)
(* SpecRebuild: objects and their reconstruction from their fields.        *)
(***************************************************************************)
NextRebuild ==
    \/ NewMathematicalExpression(Formulas, {ScalarParameter})
    \/ NewDiscreteTimeSeries({QData(<<MaxTime>>, Meter)}, {Seconds(MaxTime)},
                             {"linear"})
    \/ NewExpressionTimeSeries
    \/ NewExpressionGenericSeries({GenericSeriesClass}, Formulas, {NoParams},
                                  SeriesParamInputs, {NoParams})
    \/ Rebuild

SpecRebuild == Init /\ [][NextRebuild]_vars

(***************************************************************************)
(* SpecSeriesInterp: the interpolation method of a generic series.         *)
(***************************************************************************)
NextSeriesInterp ==
    \/ NewGenericSeriesInterpolation(
            DiscreteInputs \cup {FormulaData(f) : f \in Formulas},
            {"None", "linear", "step", "spline"})
    \/ SetSeriesInterpolation({"linear", "step", "spline", "None"})

SpecSeriesInterp == Init /\ [][NextSeriesInterp]_vars

(***************************************************************************)
(* SpecShape: the shape of series.                                         *)
(***************************************************************************)
NextShape ==
    \/ NewDiscreteTimeSeries({QData(<<MaxTime>>, Meter)}, {Seconds(MaxTime)},
                             {"linear"})
    \/ NewDiscreteGenericSeries({GenericSeriesClass}, DiscreteInputs)
    \/ NewExpressionGenericSeries({GenericSeriesClass}, Formulas, {NoParams},
                                  {ScalarParameter}, {NoParams})
    \/ CallGenericSeries({DictArg(<< <<"t", QArray(MaxTime, Second)>> >>)})
    \/ ReadShape

SpecShape == Init /\ [][NextShape]_vars

(***************************************************************************)
(* SpecSubclass: series of constrained subclasses and calls of them.       *)
(***************************************************************************)
NextSubclass ==
    \/ NewDiscreteGenericSeries(SubclassInputs,
           {DiscreteData(<<d>>, <<MaxTime>>, Meter,
                         << <<d, QArray(MaxTime, Second)>> >>) : d \in {"t", "s"}})
    \/ NewExpressionGenericSeries(SubclassInputs, Formulas, {NoParams},
                                  {NoParams, ScalarParameter}, UnitsInputs)
    \/ CallGenericSeries(Dicts1({"a", "t", "s"}, {QArray(MaxTime, Second)}))

SpecSubclass == Init /\ [][NextSubclass]_vars

(***************************************************************************)
(* SpecInterp: time series, writes of their interpolation and resampling.  *)
(***************************************************************************)
NextInterp ==
    \/ NewMathematicalExpression(Formulas, {ScalarParameter})
    \/ NewDiscreteTimeSeries({QData(<<n>>, Meter) : n \in {1, MaxTime}},
                             {<<>>, Seconds(MaxTime)}, InterpolationInputs)
    \/ NewExpressionTimeSeries
    \/ SetInterpolation(InterpolationWrites)
    \/ InterpTime({Seconds(1), Seconds(MaxTime)})

SpecInterp == Init /\ [][NextInterp]_vars

(***************************************************************************)
(* SpecSampled: discrete time series of the values 0, 1, 2, ... m at the   *)
(* seconds 0, 1, 2, ..., resampled at 1 s, 1.5 s, 2.5 s and (outside the   *)
(* sampled range) before 0 s.                                              *)
(***************************************************************************)
NextSampled ==
    LET grid == [i \in 1..MaxLen |-> 2 * (i - 1)]
    IN  \/ NewDiscreteTimeSeries({SampledData(grid, Meter)}, {grid},
                                 {"None", "linear"})
        \/ InterpTime({<<2>>, <<3>>, <<5>>, <<-2>>})

SpecSampled == Init /\ [][NextSampled]_vars

(***************************************************************************)
(* Properties of expressions and time series, checked under Spec.          *)
(***************************************************************************)
\* C1: an interp_time call that returns gives a new TimeSeries whose
\* resampling counter is the receiver's counter plus one, and a freshly
\* constructed TimeSeries, discrete or expression-backed, has counter 0.
C1_CounterIncrements ==
    /\ (last.op = "interp_time" /\ last.err = "none") =>
            /\ last.obj.kind = "ts"
            /\ last.result # last.recv
            /\ last.obj.interp_counter = heap[last.recv].interp_counter + 1
    /\ (last.op = "TimeSeries" /\ last.err = "none") =>
            last.obj.interp_counter = 0

\* a chain of two interp_time calls from a fresh series
C1_Witness ==
    /\ last.op = "interp_time"
    /\ last.err = "none"
    /\ heap[last.recv].interp_counter = 1
    /\ last.obj.interp_counter = 2

\* C2: interp_time emits the precision-loss notice exactly when the counter
\* of the receiver is greater than 0, emits it before it computes, never
\* raises because of repeated resampling, and a call on an already resampled
\* series still returns a result.
C2_NoticeIffResampled ==
    last.op = "interp_time" =>
        LET c == heap[last.recv].interp_counter
            ev == last.events
        IN  /\ ("warn" \in Range(ev)) <=> (c > 0)
            /\ \A i \in DOMAIN ev : ev[i] = "warn" => i = 1
            /\ \A i \in DOMAIN ev : ev[i] = "compute" => i = Len(ev) \/ ev[i + 1] = "return"
            /\ "raise" \notin Range(ev)
            /\ (c > 0) => (last.err = "none" /\ last.obj.kind = "ts")

\* a second resampling: the notice, then the computation and the result
C2_Witness ==
    /\ last.op = "interp_time"
    /\ heap[last.recv].interp_counter > 0
    /\ last.events = <<"warn", "compute", "return">>
    /\ last.obj.kind = "ts"

\* C4: every expression-backed TimeSeries wraps an expression that has
\* exactly one free variable, whatever is done to the expression that was
\* passed to the constructor.
C4_OneFreeVariable ==
    \A i \in Ids("ts") :
        ~TimeSeries_is_discrete(heap[i]) => num_variables(heap[heap[i].data]) = 1

\* C5: after any sequence of set_parameters calls, accepted or rejected,
\* every bound parameter name of an expression is a free symbol of its
\* formula, num_variables is the number of names get_variable_names returns,
\* these names are the free symbols minus the bound names, and
\* num_parameters + num_variables is the number of free symbols.
C5_ExpressionInvariant ==
    \A i \in Ids("expr") :
        LET e == heap[i]
        IN  /\ Keys(e.parameters) \subseteq free_symbols(e)
            /\ num_variables(e) = Len(get_variable_names(e))
            /\ Range(get_variable_names(e)) = free_symbols(e) \ Keys(e.parameters)
            /\ num_parameters(e) + num_variables(e) = Cardinality(free_symbols(e))

\* a rejected set_parameters call that bound "a" before it met the name that
\* is no symbol
C5_Witness ==
    /\ last.op = "set_parameters"
    /\ last.err = "ValueError"
    /\ Has(heap[last.recv].parameters, "a")
    /\ ~Has(heap[last.recv].parameters, "b")

\* C6: constructing a TimeSeries from an expression whose number of free
\* variables is not one fails with the error of the variable count check and
\* yields no TimeSeries.
C6_WrongVariableCountRejected ==
    (/\ last.op = "TimeSeries"
     /\ last.recv # 0
     /\ num_variables(heap[last.recv]) # 1) =>
        /\ last.err = "Exception: 1 free variable"
        /\ last.obj = None
        /\ last.result = 0

\* the construction from an expression with two free variables
C6_Witness ==
    /\ last.op = "TimeSeries"
    /\ last.recv # 0
    /\ num_variables(heap[last.recv]) = 2
    /\ last.err = "Exception: 1 free variable"

(***************************************************************************)
(* Properties of the operations that return new instances, checked under   *)
(* SpecFrame.                                                              *)
(***************************************************************************)
\* C3: interp_time on a TimeSeries and a call of a GenericSeries (full
\* evaluation, partial binding, discrete interpolation) leave the receiver
\* and every other object as they were, and the object they return is none
\* of the objects that existed before.
C3_ReceiverUnchanged ==
    [][(last'.op \in {"interp_time", "call"}) =>
            /\ Len(heap') >= Len(heap)
            /\ \A i \in DOMAIN heap : heap'[i] = heap[i]
            /\ last'.result \notin DOMAIN heap]_vars

\* a partial binding: the series returned has fewer variables than the
\* receiver, which still has all of its own
C3_Witness ==
    /\ last.op = "call"
    /\ last.err = "none"
    /\ GenericSeries_is_expression(last.obj)
    /\ num_variables(last.obj.data) = 1
    /\ num_variables(heap[last.recv].data) = 2

(***************************************************************************)
(* Properties of the probes of TimeSeries._init_expression, checked under  *)
(* SpecProbe.                                                              *)
(***************************************************************************)
\* C7: an expression-backed TimeSeries is constructed only if interp_time
\* succeeds for 2 and for 3 time points, and an expression with one free
\* variable and a parameter that is an array of 2 or more values along
\* "time" is rejected with the error of the time array check.
C7_TimeArrayParameterRejected ==
    (last.op = "TimeSeries" /\ last.recv # 0) =>
        LET e == heap[last.recv]
        IN  /\ (last.err = "none") =>
                    \A n \in {2, 3} :
                        interp_time(heap, last.obj, Seconds(n), Second).err = "none"
            /\ (/\ num_variables(e) = 1
                 /\ \E i \in DOMAIN e.parameters :
                        /\ e.parameters[i][2].nd = 1
                        /\ e.parameters[i][2].dim = "time"
                        /\ e.parameters[i][2].len >= 2) =>
                    (last.err = "Exception: time arrays" /\ last.obj = None)

\* the parameter has 2 values: the probe with 2 time points passes, the one
\* with 3 does not
C7_Witness ==
    /\ last.op = "TimeSeries"
    /\ last.recv # 0
    /\ last.err = "Exception: time arrays"
    /\ \E i \in DOMAIN heap[last.recv].parameters :
            /\ heap[last.recv].parameters[i][2].dim = "time"
            /\ heap[last.recv].parameters[i][2].len = 2

(***************************************************************************)
(* Properties of GenericSeries._eval_expr, checked under SpecSeriesProbe.  *)
(***************************************************************************)
\* C8: constructing an expression-backed GenericSeries fails with a
\* ValueError when two free variables are mapped to one dimension, and when
\* a parameter is an array of 2 or more values along the dimension of a free
\* variable, whatever the position of that variable among the units.
C8_CollisionsDetected ==
    (last.op = "GenericSeries" /\ last.args.f.op # "none") =>
        LET made == MathematicalExpression(last.args.f, last.args.parameters)
            e == made.obj
            names == get_variable_names(e)
            dims == FillDims(last.args.dims.items, names)
            dimsOf(v) == Range(DADims(Get(dims, v)))
            sharing == \E i, j \in DOMAIN names :
                          i # j /\ dimsOf(names[i]) \cap dimsOf(names[j]) # {}
            shadowed == \E p \in DOMAIN e.parameters, i \in DOMAIN names :
                           /\ e.parameters[p][2].nd = 1
                           /\ e.parameters[p][2].len >= 2
                           /\ e.parameters[p][2].dim \in dimsOf(names[i])
        IN  (made.err = "none" /\ (sharing \/ shadowed)) =>
                /\ last.err \in {"ValueError: array lengths", "ValueError: units"}
                /\ last.obj = None

\* a*t with t the first variable and a parameter of 2 values along the
\* dimension of t: only the second pass has a different length
C8_Witness ==
    /\ last.op = "GenericSeries"
    /\ last.args.f = Formula("mul", <<"a", "t">>)
    /\ last.args.dims = NoParams
    /\ last.args.parameters = ArrayParameter(2, "t")
    /\ last.err = "ValueError: array lengths"

(***************************************************************************)
(* Properties of MathematicalExpression, checked under SpecExpr.           *)
(***************************************************************************)
\* C13: evaluate raises ValueError whenever a supplied name is the name of a
\* bound parameter; it then never calls the formula's function, returns
\* nothing, and leaves the expression and its parameters as they were.
C13_CollisionRejected ==
    [][(/\ last'.op = "evaluate"
        /\ \E k \in Keys(last'.args.kwargs) :
               Has(heap[last'.recv].parameters, k))
          => /\ last'.err = "ValueError"
             /\ last'.events = <<>>
             /\ last'.obj = None
             /\ heap' = heap]_vars

\* a call with two bindings, one of them colliding, was rejected
C13_Witness ==
    /\ last.op = "evaluate"
    /\ Len(last.args.kwargs) = 2
    /\ last.args.kwargs[2][1] = "a"
    /\ Keys(heap[last.recv].parameters) = {"a"}
    /\ last.err = "ValueError"

(***************************************************************************)
(* Properties of the interpolation of a TimeSeries, checked under          *)
(* SpecInterp.                                                             *)
(***************************************************************************)
\* C14: every discrete TimeSeries, constructed, written to or returned by
\* interp_time, stores an interpolation of the allowed set, and stores
\* "step" when it has only one time point.
C14_StoredInterpolation ==
    \A ts \in {heap[i] : i \in Ids("ts")}
               \cup (IF last.obj.kind = "ts" THEN {last.obj} ELSE {}) :
        TimeSeries_is_discrete(ts) =>
            /\ ts.arr.interpolation \in _valid_interpolations
            /\ (ts.arr.lens[IndexOf(ts.arr.dims, "time")] <= 1)
                    => ts.arr.interpolation = "step"

\* a series of one time point was written "linear" and stores "step"
C14_Witness ==
    /\ last.op = "set_interpolation"
    /\ last.args.kwargs[1][2] = "linear"
    /\ last.err = "none"
    /\ TimeSeries_is_discrete(heap[last.recv])
    /\ heap[last.recv].arr.lens = <<1>>
    /\ heap[last.recv].arr.interpolation = "step"

\* C15: writing a value outside the allowed set to the interpolation of a
\* discrete TimeSeries raises ValueError and leaves the series as it was;
\* writing any value to an expression-backed TimeSeries raises nothing and
\* changes nothing: its interpolation stays None.
C15_InterpolationWrite ==
    [][(last'.op = "set_interpolation") =>
          LET ts == heap[last'.recv]
              written == last'.args.kwargs[1][2]
          IN  /\ (TimeSeries_is_discrete(ts) /\ written \notin _valid_interpolations)
                    => (last'.err = "ValueError" /\ heap' = heap)
              /\ ~TimeSeries_is_discrete(ts)
                    => /\ last'.err = "none"
                       /\ heap' = heap
                       /\ TimeSeries_interpolation(heap'[last'.recv]) = "None"]_vars

\* "spline" was written to a discrete series of two time points
C15_Witness ==
    /\ last.op = "set_interpolation"
    /\ last.args.kwargs[1][2] = "spline"
    /\ last.err = "ValueError"
    /\ TimeSeries_is_discrete(heap[last.recv])
    /\ heap[last.recv].arr.lens = <<2>>
    /\ heap[last.recv].arr.interpolation = "linear"

(***************************************************************************)
(* Properties of resampling, checked under SpecSampled.                    *)
(***************************************************************************)
\* C16: for a discrete TimeSeries ts and a single time t inside its sampled
\* range, ts.interp_time([t]).interp_time([t]) equals ts.interp_time([t])
\* under the equality of TimeSeries.
C16_ResampleIdempotent ==
    \A id \in Ids("ts") :
        LET ts == heap[id]
        IN  (TimeSeries_is_discrete(ts) /\ ts.arr.values # <<>>) =>
                \A t \in 0..(2 * MaxLen) :
                    (/\ \E j \in DOMAIN ts.arr.time : ts.arr.time[j] <= t
                     /\ \E j \in DOMAIN ts.arr.time : ts.arr.time[j] >= t) =>
                        LET once == interp_time(heap, ts, <<t>>, Second)
                            twice == interp_time(heap, once.ts, <<t>>, Second)
                        IN  /\ once.err = "none"
                            /\ twice.err = "none"
                            /\ once.ts.arr.values # <<>>
                            /\ TimeSeries_eq(heap, twice.ts, once.ts)

\* a linear series was resampled at 1.5 s, the result was kept and resampled
\* at 1.5 s again
C16_Witness ==
    /\ last.op = "interp_time"
    /\ last.err = "none"
    /\ last.obj.interp_counter = 2
    /\ last.obj.arr.time = <<3>>
    /\ last.obj.arr.values = <<3>>
    /\ TimeSeries_eq(heap, last.obj, heap[last.recv])

\* C17: interp_time of a discrete TimeSeries with "step" interpolation at a
\* time inside the sampled range returns the last sample at or before that
\* time; the values 0, 1, 2, 3 at 0, 1, 2, 3 s give 1 at 1.5 s.
C17_StepInterpolation ==
    \A id \in Ids("ts") :
        LET ts == heap[id]
            time == ts.arr.time
        IN  (/\ TimeSeries_is_discrete(ts)
             /\ ts.arr.values # <<>>
             /\ TimeSeries_interpolation(ts) = "step") =>
                /\ \A t \in 0..(2 * MaxLen) :
                       LET before == {j \in DOMAIN time : time[j] <= t}
                           at == CHOOSE j \in before :
                                     \A k \in before : time[k] <= time[j]
                           r == interp_time(heap, ts, <<t>>, Second)
                       IN  (before # {} /\ \E j \in DOMAIN time : time[j] >= t) =>
                               /\ r.err = "none"
                               /\ r.ts.arr.values = <<ts.arr.values[at]>>
                /\ (/\ Len(time) >= 4
                    /\ SubSeq(time, 1, 4) = <<0, 2, 4, 6>>
                    /\ SubSeq(ts.arr.values, 1, 4) = <<0, 2, 4, 6>>) =>
                       interp_time(heap, ts, <<3>>, Second).ts.arr.values = <<2>>

\* the step series of 0, 1, 2, ... was resampled at 1.5 s and gave 1
C17_Witness ==
    /\ last.op = "interp_time"
    /\ last.err = "none"
    /\ Len(heap[last.recv].arr.time) = MaxLen
    /\ TimeSeries_interpolation(heap[last.recv]) = "step"
    /\ last.obj.arr.time = <<3>>
    /\ last.obj.arr.values = <<2>>

(***************************************************************************)
(* Properties of the comparison of expressions, checked under SpecEquals.  *)
(***************************************************************************)
\* C19: two expressions are == exactly when their formulas are structurally
\* identical and their parameters deeply equal; equals without the structural
\* flag accepts formulas whose difference simplifies to zero, equals with
\* check_parameters=False ignores the parameters, a comparison with something
\* that is no expression is False, and a == b implies a.equals(b) under
\* every combination of the two flags.
C19_Equality ==
    (last.op \in {"__eq__", "equals"}) =>
        LET a == heap[last.recv]
            other == last.args.kwargs[1][2]
            b == IF other = 0 THEN None ELSE heap[other]
            cp == last.args.kwargs[2][2]
            cs == last.args.kwargs[3][2]
            structural == a.expression = b.expression
            mathematical ==
                \A m \in SUBSET {"a", "t"} :
                    Coefficient(a.expression, m) = Coefficient(b.expression, m)
            deep == /\ Keys(a.parameters) = Keys(b.parameters)
                    /\ \A k \in Keys(a.parameters) :
                           Get(a.parameters, k) = Get(b.parameters, k)
        IN  IF other = 0 THEN last.obj.value = FALSE
            ELSE /\ (last.op = "__eq__") =>
                        /\ last.obj.value <=> (structural /\ deep)
                        /\ last.obj.value =>
                               \A p, q \in BOOLEAN : equals(a, b, p, q)
                 /\ (last.op = "equals") =>
                        (last.obj.value <=>
                            /\ IF cs THEN structural ELSE mathematical
                            /\ cp => deep)

\* a*t with a bound was found equal to a*(t + 1) - a without parameters by
\* the loose comparison that ignores parameters
C19_Witness ==
    /\ last.op = "equals"
    /\ last.args.kwargs[1][2] # 0
    /\ heap[last.recv].expression.op = "mul"
    /\ heap[last.args.kwargs[1][2]].expression.op = "factored"
    /\ heap[last.recv].parameters # heap[last.args.kwargs[1][2]].parameters
    /\ ~last.args.kwargs[2][2]
    /\ ~last.args.kwargs[3][2]
    /\ last.obj.value

\* C20: evaluate has the same outcome, the same result or the same error,
\* for the same bindings given in any order; this holds for the bindings
\* **e.parameters, **probe in particular.
C20_OrderInvariant ==
    (last.op = "evaluate") =>
        LET e == heap[last.recv]
            kwargs == last.args.kwargs
            orders == {p \in [DOMAIN kwargs -> DOMAIN kwargs] :
                          \A i, j \in DOMAIN kwargs : p[i] = p[j] => i = j}
        IN  \A p \in orders :
                LET r == evaluate(e, [i \in DOMAIN kwargs |-> kwargs[p[i]]])
                IN  /\ r.err = last.err
                    /\ (r.err = "none") => r.arr = last.obj.arr

\* a*t was evaluated with t bound before a, to arrays along different
\* dimensions, and the result has the dimension of a first
C20_Witness ==
    /\ last.op = "evaluate"
    /\ Len(last.args.kwargs) = 2
    /\ last.args.kwargs[1][1] = "t"
    /\ last.args.kwargs[2][1] = "a"
    /\ last.err = "none"
    /\ last.obj.arr.dims = <<"x", "dim_0">>

(***************************************************************************)
(* Rejected set_parameters calls, checked under Spec.                      *)
(***************************************************************************)
\* C25: a set_parameters call that is rejected (the argument is no mapping,
\* or one of its names is no free symbol of the formula) binds none of the
\* entries: the parameters of the expression are what they were before the
\* call.
C25_RejectedCallBindsNothing ==
    [][(last'.op = "set_parameters" /\ last'.err # "none") =>
            heap'[last'.recv].parameters = heap[last'.recv].parameters]_vars

(***************************************************************************)
(* Constraints of subclasses, checked under SpecSubclass.                  *)
(***************************************************************************)
\* C26: every series of a constrained subclass satisfies the constraints of
\* its class, whether it was constructed or returned by a call; and a call of
\* a series returns a series of the class of the receiver.
C26_SubclassConstraints ==
    /\ \A id \in Ids("gs") : ConstraintError(heap[id]) = "none"
    /\ (last.op \in {"GenericSeries", "call"} /\ last.err = "none") =>
            ConstraintError(last.obj) = "none"
    /\ (last.op = "call" /\ last.err = "none") =>
            last.obj.cls = heap[last.recv].cls

(***************************************************************************)
(* The interpolation method of a GenericSeries, checked under              *)
(* SpecSeriesInterp.                                                       *)
(***************************************************************************)
\* C23: a series constructed with an interpolation method reports that method
\* through `interpolation`; the setter accepts exactly "linear" and "step",
\* stores what it accepts and leaves the series unchanged when it rejects a
\* value; nothing else changes the method of a series.
C23_ConstructorInterpolation ==
    [][LET val == last'.args.kwargs[1][2]
       IN  /\ (last'.op = "GenericSeries" /\ last'.err = "none"
                    /\ val # "None") =>
                    GenericSeries_interpolation(last'.obj) = val
           /\ (last'.op = "set_interpolation") =>
                    /\ (last'.err = "none") <=> (val \in {"linear", "step"})
                    /\ heap'[last'.recv] =
                            IF last'.err = "none"
                            THEN [heap[last'.recv] EXCEPT !.interpolation = val]
                            ELSE heap[last'.recv]
           /\ (last'.op # "set_interpolation") =>
                    \A id \in DOMAIN heap : heap'[id] = heap[id]]_vars

(***************************************************************************)
(* The shape of a series, checked under SpecShape.                         *)
(***************************************************************************)
\* C24: `shape` of a generic series of discrete data does not raise and
\* returns the shape of the data array, as `shape` of a time series of
\* discrete data does.
C24_DiscreteShape ==
    (/\ last.op = "shape"
     /\ heap[last.recv].kind = "gs" => ~GenericSeries_is_expression(heap[last.recv])) =>
        /\ last.err = "none"
        /\ last.obj.value = heap[last.recv].arr.lens

(***************************************************************************)
(* Reconstruction, checked under SpecRebuild.                              *)
(***************************************************************************)
\* C21: an expression, a TimeSeries and a GenericSeries built again from
\* their fields are built without error and compare equal (==) to the object
\* the fields were taken from.
C21_ReconstructedEqual ==
    (last.op = "rebuild") => (last.err = "none" /\ last.obj.value)

\* C12: in an expression-backed GenericSeries every free variable without an
\* explicitly given dimension has its own name as its single dimension,
\* `dims` is the union of the dimensions of the variables and of the
\* array-valued parameters, and for a series built without explicit dims and
\* without array parameters `dims` is the set of the free-variable names.
C12_DefaultDims ==
    (/\ last.op = "GenericSeries"
     /\ last.err = "none"
     /\ GenericSeries_is_expression(last.obj)) =>
        LET gs == last.obj
            names == Range(get_variable_names(gs.data))
            arrays == {i \in DOMAIN gs.data.parameters :
                          /\ gs.data.parameters[i][2].nd = 1
                          /\ gs.data.parameters[i][2].len > 0}
        IN  /\ \A v \in names \ Keys(last.args.dims.items) :
                    DADims(Get(gs.symbol_dims, v)) = <<v>>
            /\ GenericSeries_dims(gs)
                    = UNION {Range(DADims(gs.symbol_dims[i][2])) :
                                i \in DOMAIN gs.symbol_dims}
                        \cup {gs.data.parameters[i][2].dim : i \in arrays}
            /\ (last.args.dims.items = <<>> /\ arrays = {}) =>
                    GenericSeries_dims(gs) = names

C22_CoercedValueBound ==
    LET self == heap[last.recv]
        kwargs == last.args.kwargs
    IN  (/\ last.op = "call"
         /\ GenericSeries_is_expression(self)
         /\ 0 < Len(kwargs)
         /\ Len(kwargs) < num_variables(self.data)
         /\ CallInputs(self, kwargs, 1, <<>>).err = "none") =>
            /\ last.err = "none"
            /\ \A i \in DOMAIN kwargs :
                    LET k == kwargs[i][1]
                        used == CallInputExpression(self, k, kwargs[i][2]).val
                    IN  /\ Has(last.obj.data.parameters, k)
                        /\ [Get(last.obj.data.parameters, k)
                                EXCEPT !.coords = used.coords] = used

\* C10: a call of an expression-backed series that binds every free variable
\* returns a discrete series whose units are the units probed and cached
\* when the receiver was constructed.
C10_UnitsAsProbed ==
    (/\ last.op = "call"
     /\ last.err = "none"
     /\ GenericSeries_is_expression(heap[last.recv])
     /\ Len(last.args.kwargs) = num_variables(heap[last.recv].data)) =>
        /\ ~GenericSeries_is_expression(last.obj)
        /\ GenericSeries_units(last.obj) = GenericSeries_units(heap[last.recv])

(***************************************************************************)
(* Properties of the class constraints, checked under SpecConstraints.     *)
(***************************************************************************)
\* C18: a call of a discrete GenericSeries with a key that is none of its
\* dimension names is rejected with the KeyError "not a valid dimension" and
\* returns no series; a call whose keys are dimension names returns a new
\* discrete series interpolated along those dimensions only.
C18_DiscreteCallKeys ==
    (last.op = "call" /\ ~GenericSeries_is_expression(heap[last.recv])) =>
        LET self == heap[last.recv]
            kwargs == last.args.kwargs
        IN  IF \E k \in Keys(kwargs) : k \notin Range(self.arr.dims)
            THEN last.err = "KeyError: not a valid dimension" /\ last.obj = None
            ELSE /\ last.err = "none"
                 /\ ~GenericSeries_is_expression(last.obj)
                 /\ last.obj.arr.dims = self.arr.dims
                 /\ \A i \in DOMAIN self.arr.dims :
                        ~Has(kwargs, self.arr.dims[i])
                            => last.obj.arr.lens[i] = self.arr.lens[i]

\* C11: a construction that the base class GenericSeries accepts is accepted
\* by a subclass that declares required dimensions exactly when every
\* required dimension is among the dimensions of the series; otherwise it
\* fails with the ValueError that names the first missing dimension and
\* yields no series.  The base class itself checks no constraint.
C11_RequiredDimensions ==
    (last.op = "GenericSeries") =>
        LET a == last.args
            b == GenericSeries(GenericSeriesClass, heap, a.data, a.dims,
                               a.parameters, a.units, "None")
            req == a.cls._required_dimensions
            missing == {i \in DOMAIN req : req[i] \notin GenericSeries_dims(b.obj)}
        IN  IF b.err # "none" THEN last.err = b.err
            ELSE IF a.cls.name = "GenericSeries" \/ missing = {}
            THEN /\ last.err = "none"
                 /\ last.obj.cls = a.cls
                 /\ GenericSeries_dims(last.obj) = GenericSeries_dims(b.obj)
            ELSE /\ last.err = RequiresDimension(
                                   req[CHOOSE i \in missing :
                                          \A j \in missing : i <= j])
                 /\ last.obj = None

\* discrete data with the dimension "t" only, for a class that requires "s"
C11_Witness ==
    /\ last.op = "GenericSeries"
    /\ last.args.cls.name = "RequiresS"
    /\ last.args.data.kind = "quantity"
    /\ last.args.data.dims = <<"t">>
    /\ last.err = RequiresDimension("s")

====
